---- MODULE Spec2Model ----
(***************************************************************************)
(* owldb: a document store that keeps one BSON file per document under     *)
(* <root>/<collection>/<id>.bson and an in-memory field index              *)
(* collection -> field -> [ids].  The model follows src/src/db/mod.rs.     *)
(***************************************************************************)
EXTENDS Integers, Sequences, FiniteSets, TLC

\* Number of ObjectIds the store generates in a run.
MaxIds == 3

\* Number of partly written files on disk at a time.
MaxPartial == 1

Collections == {"users"}

\* Collection names of the calls that try collections against each other:
\* "users/" is another String, so another key of the index.
CollectionNames == {"users", "users/", "orders"}

\* Field names of the documents of tests::test_documents.
Fields == {"name", "age"}

\* A key with an interior NUL byte: BSON cannot write it as a cstring.
NulKey == "nul"

Ids == 1 .. MaxIds

\* An id string that ObjectId::new never produced.
StrangerId == MaxIds + 1

EmptyDoc == [f \in {} |-> 0]

test_documents ==
    << [name |-> "John", age |-> 30],
       [name |-> "Jane", age |-> 25],
       [name |-> "John", age |-> 25] >>

\* Documents handed to insert_one.
InsertDocs == { test_documents[1], [name |-> "Jane"], [nul |-> 25] }

\* Queries handed to find and delete.
Queries ==
    { EmptyDoc, [name |-> "John"], [age |-> 30], [name |-> "John", age |-> 30] }

ValuesOf(f) == IF f = "name" THEN {"John", "Jane"} ELSE {25, 30}

Range(s) == { s[i] : i \in DOMAIN s }

\* The orders in which a directory listing or a HashSet can hand out the ids S.
Orders(S) == { s \in [1 .. Cardinality(S) -> S] :
                   \A i, j \in DOMAIN s : s[i] = s[j] => i = j }

---------------------------------------------------------------------------
(* Results *)

Ok(v) == [kind |-> "Ok", val |-> v]
Err(k) == [kind |-> k]

---------------------------------------------------------------------------
(* Document codec: bson::Document::to_writer / from_reader.  A file is a  *)
(* sequence of tokens: the total length, then per element its type tag,   *)
(* key and value, then the terminator.                                    *)

\* Element order of a document.
FieldOrder == << "name", "age", "nul" >>

\* BSON element type: 0x02 string, 0x10 int32.
TypeTag(f) == IF f = "name" THEN "x02" ELSE "x10"

RECURSIVE WriteElements(_, _)
WriteElements(doc, i) ==
    IF i > Len(FieldOrder) THEN << >>
    ELSE LET f == FieldOrder[i]
         IN  (IF f \in DOMAIN doc
              THEN << TypeTag(f), f, ToString(doc[f]) >>
              ELSE << >>) \o WriteElements(doc, i + 1)

to_writer(doc) ==
    IF NulKey \in DOMAIN doc
    THEN Err("BsonSerError")
    ELSE LET es == WriteElements(doc, 1)
         IN  Ok(<< ToString(Len(es) + 2) >> \o es \o << "x00" >>)

\* Element j of a well-framed buffer: tokens 3j-1 .. 3j+1.
ElementOk(b, j) ==
    LET tag == b[3 * j - 1]
        key == b[3 * j]
        val == b[3 * j + 1]
    IN  /\ key \in Fields
        /\ tag = TypeTag(key)
        /\ \E v \in ValuesOf(key) : ToString(v) = val
        /\ \A k \in 1 .. (j - 1) : b[3 * k] # key

from_reader(b) ==
    IF \/ Len(b) < 2
       \/ b[1] # ToString(Len(b))
       \/ b[Len(b)] # "x00"
       \/ (Len(b) - 2) % 3 # 0
    THEN Err("BsonDeError")
    ELSE LET n == (Len(b) - 2) \div 3
         IN  IF \E j \in 1 .. n : ~ElementOk(b, j)
             THEN Err("BsonDeError")
             ELSE Ok([ key \in { b[3 * j] : j \in 1 .. n } |->
                         LET j == CHOOSE k \in 1 .. n : b[3 * k] = key
                         IN  CHOOSE v \in ValuesOf(key) : ToString(v) = b[3 * j + 1] ])

\* The query's fields are present in the document, whatever their values.
MatchesPresence(doc, query) == \A k \in DOMAIN query : k \in DOMAIN doc

\* query.iter().all(|(k, v)| doc.get(k) == Some(v))
Matches(doc, query) ==
    \A k \in DOMAIN query : k \in DOMAIN doc /\ doc[k] = query[k]

---------------------------------------------------------------------------
(* The filesystem under folder_path: whether the root exists, which       *)
(* collection directories exist, and the files in each.                   *)

NoFiles == [i \in {} |-> << >>]

\* Database::get_collection_path: format!("{}/{}", folder_path, collection),
\* as the directory the path names: <root>/users/ is the directory
\* <root>/users.
get_collection_path(c) == IF c = "users/" THEN "users" ELSE c

Directories == { get_collection_path(c) : c \in CollectionNames }

EmptyDisk == [root |-> TRUE, dirs |-> {}, files |-> [dir \in Directories |-> NoFiles]]

\* The files of the directory of collection c, by id: the file of id is
\* Database::get_document_path(c, id).
Files(d, c) == d.files[get_collection_path(c)]

\* A create_dir_all that leaves the directory empty.
create_path_dirs_empties(d, c) ==
    [d EXCEPT !.root = TRUE, !.dirs = @ \cup {get_collection_path(c)},
              !.files[get_collection_path(c)] = NoFiles]

\* tokio::fs::create_dir_all(<root>/<collection>)
create_path_dirs(d, c) ==
    [d EXCEPT !.root = TRUE, !.dirs = @ \cup {get_collection_path(c)}]

\* tokio::fs::write(<root>/<collection>/<id>.bson, bytes)
fs_write(d, c, id, bytes) ==
    [d EXCEPT !.files[get_collection_path(c)] =
                 [i \in DOMAIN @ \cup {id} |-> IF i = id THEN bytes ELSE @[i]]]

\* A removal that misses the file.
fs_remove_file_misses(d, c, id) == d

\* tokio::fs::remove_file(<root>/<collection>/<id>.bson)
fs_remove_file(d, c, id) ==
    [d EXCEPT !.files[get_collection_path(c)] = [i \in DOMAIN @ \ {id} |-> @[i]]]

\* tokio::fs::read; bad holds the files whose access fails in this call.
fs_read(d, c, id, bad) ==
    IF id \notin DOMAIN Files(d, c) THEN Err("NotFound")
    ELSE IF id \in bad THEN Err("IoError")
    ELSE Ok(Files(d, c)[id])

\* The fault inputs of a call that touches the files S: none fails, or one.
Faults(S) == { {} } \cup { {i} : i \in S }

\* What a failed write can leave behind: a proper prefix of the bytes, here
\* the shortest and the longest.
PartialWrites(bytes) == { SubSeq(bytes, 1, k) : k \in {0, Len(bytes) - 1} }

---------------------------------------------------------------------------
(* Database operations as functions of the disk, the index and the call's *)
(* inputs.  Each returns the disk and index it leaves and its result.     *)

Out(d, idx, r) == [disk |-> d, index |-> idx, res |-> r]

\* HashMap::new()
NoIndex == [c \in {} |-> 0]

\* add_index that inserts an empty Vec whether or not the field is tracked.
add_index_overwrites(idx, c, f) ==
    IF c \in DOMAIN idx
    THEN [idx EXCEPT ![c] = (f :> << >>) @@ @]
    ELSE (c :> (f :> << >>)) @@ idx

\* Database::add_index
add_index(idx, c, f) ==
    IF c \in DOMAIN idx
    THEN IF f \notin DOMAIN idx[c]
         THEN [idx EXCEPT ![c] = (f :> << >>) @@ @]
         ELSE idx
    ELSE (c :> (f :> << >>)) @@ idx

\* insert_one's index update, after the write succeeded.
IndexInsert(idx, c, id, doc) ==
    IF c \in DOMAIN idx
    THEN LET fi == idx[c]
         IN  [idx EXCEPT ![c] =
                 [f \in DOMAIN fi \cup DOMAIN doc |->
                     IF f \in DOMAIN doc
                     THEN (IF f \in DOMAIN fi THEN Append(fi[f], id) ELSE << id >>)
                     ELSE fi[f]]]
    ELSE idx

NoFault == [at |-> "none"]

\* What can go wrong in insert_one's filesystem steps: create_dir_all fails;
\* write fails before the file is created; write fails with a prefix written.
InsertFaults(doc) ==
    LET ser == to_writer(doc)
    IN  {NoFault, [at |-> "mkdir"], [at |-> "create"]}
        \cup (IF ser.kind = "Ok"
              THEN { [at |-> "write", left |-> p] : p \in PartialWrites(ser.val) }
              ELSE {})

\* insert_one with the index updated before the write is known to succeed.
insert_one_index_first(d, idx, id, c, doc, fault) ==
    LET ser == to_writer(doc)
        idx1 == IndexInsert(idx, c, id, doc)
    IN  IF ser.kind # "Ok" THEN Out(d, idx, Err("BsonSerError"))
        ELSE IF fault.at = "mkdir" THEN Out(d, idx1, Err("IoError"))
        ELSE LET d1 == create_path_dirs(d, c)
             IN  CASE fault.at = "create" -> Out(d1, idx1, Err("IoError"))
                   [] fault.at = "write" ->
                        Out(fs_write(d1, c, id, fault.left), idx1, Err("IoError"))
                   [] OTHER -> Out(fs_write(d1, c, id, ser.val), idx1, Ok(id))

\* insert_one that names the file by the first id free in the collection
\* instead of the generated one.
insert_one_first_free_id(d, idx, id, c, doc, fault) ==
    LET ser == to_writer(doc)
        free == CHOOSE i \in Ids : /\ i \notin DOMAIN Files(d, c)
                                   /\ \A j \in 1 .. (i - 1) : j \in DOMAIN Files(d, c)
    IN  IF ser.kind # "Ok" THEN Out(d, idx, Err("BsonSerError"))
        ELSE IF fault.at = "mkdir" THEN Out(d, idx, Err("IoError"))
        ELSE LET d1 == create_path_dirs(d, c)
             IN  CASE fault.at = "create" -> Out(d1, idx, Err("IoError"))
                   [] fault.at = "write" ->
                        Out(fs_write(d1, c, free, fault.left), idx, Err("IoError"))
                   [] OTHER ->
                        Out(fs_write(d1, c, free, ser.val),
                            IndexInsert(idx, c, free, doc), Ok(free))

\* Database::insert_one with the generated id
insert_one(d, idx, id, c, doc, fault) ==
    LET ser == to_writer(doc)
    IN  IF ser.kind # "Ok" THEN Out(d, idx, Err("BsonSerError"))
        ELSE IF fault.at = "mkdir" THEN Out(d, idx, Err("IoError"))
        ELSE LET d1 == create_path_dirs(d, c)
             IN  CASE fault.at = "create" -> Out(d1, idx, Err("IoError"))
                   [] fault.at = "write" ->
                        Out(fs_write(d1, c, id, fault.left), idx, Err("IoError"))
                   [] OTHER ->
                        Out(fs_write(d1, c, id, ser.val),
                            IndexInsert(idx, c, id, doc), Ok(id))

None == [some |-> FALSE]
Some(v) == [some |-> TRUE, doc |-> v]

\* find_one with a missing file reported as an I/O error.
find_one_notfound_is_error(d, c, id, bad) ==
    LET r == fs_read(d, c, id, bad)
    IN  CASE r.kind = "Ok" ->
               LET dec == from_reader(r.val)
               IN  IF dec.kind = "Ok" THEN Ok(Some(dec.val)) ELSE Err("BsonDeError")
          [] OTHER -> Err("IoError")

\* find_one that takes a file it cannot read or decode for a missing one.
find_one_skips_bad_file(d, c, id, bad) ==
    LET r == fs_read(d, c, id, bad)
    IN  IF r.kind = "Ok" /\ from_reader(r.val).kind = "Ok"
        THEN Ok(Some(from_reader(r.val).val))
        ELSE Ok(None)

\* Database::find_one
find_one(d, c, id, bad) ==
    LET r == fs_read(d, c, id, bad)
    IN  CASE r.kind = "Ok" ->
               LET dec == from_reader(r.val)
               IN  IF dec.kind = "Ok" THEN Ok(Some(dec.val)) ELSE Err("BsonDeError")
          [] r.kind = "NotFound" -> Ok(None)
          [] OTHER -> Err("IoError")

NoHits == [i \in {} |-> EmptyDoc]

\* find's loop over the candidate ids the index gave (lines 149-156): ids is
\* the iteration order, hits the documents pushed so far, by the id read.
RECURSIVE FindCandidates(_, _, _, _, _, _)
FindCandidates(d, c, ids, bad, k, hits) ==
    IF k > Len(ids) THEN Ok(hits)
    ELSE LET r == find_one(d, c, ids[k], bad)
         IN  IF r.kind # "Ok" THEN r
             ELSE FindCandidates(d, c, ids, bad, k + 1,
                     IF r.val.some THEN (ids[k] :> r.val.doc) @@ hits ELSE hits)

\* The candidate set as the union of the id sets.
candidate_ids_union(fi, query) ==
    LET qf == DOMAIN query \cap DOMAIN fi
    IN  IF qf = {} THEN None
        ELSE [some |-> TRUE, ids |-> UNION { Range(fi[f]) : f \in qf }]

\* find's candidate set (lines 135-147): None, or the intersection of the id
\* sets of the query's fields that have an index entry.
candidate_ids(fi, query) ==
    LET qf == DOMAIN query \cap DOMAIN fi
    IN  IF qf = {} THEN None
        ELSE [some |-> TRUE,
              ids |-> { i \in UNION { Range(fi[f]) : f \in qf } :
                            \A f \in qf : i \in Range(fi[f]) }]

\* find's loop over the directory listing (lines 166-182).
RECURSIVE FindScan(_, _, _, _, _, _, _)
FindScan(d, c, query, ids, bad, k, hits) ==
    IF k > Len(ids) THEN Ok(hits)
    ELSE LET r == fs_read(d, c, ids[k], bad)
         IN  IF r.kind # "Ok" THEN Err("IoError")
             ELSE LET dec == from_reader(r.val)
                  IN  IF dec.kind # "Ok" THEN Err("BsonDeError")
                      ELSE FindScan(d, c, query, ids, bad, k + 1,
                              IF Matches(dec.val, query)
                              THEN (ids[k] :> dec.val) @@ hits ELSE hits)

\* The entries of ids, in order, that are in S.
Only(ids, S) == SelectSeq(ids, LAMBDA i : i \in S)

\* Database::find; order is the order in which ids come out of the HashSet
\* or the directory listing.
find(d, idx, c, query, order, bad) ==
    IF c \in DOMAIN idx
    THEN LET cand == candidate_ids(idx[c], query)
         IN  IF cand.some
             THEN FindCandidates(d, c, Only(order, cand.ids), bad, 1, NoHits)
             ELSE Ok(NoHits)
    ELSE IF get_collection_path(c) \notin d.dirs THEN Err("IoError")
    ELSE FindScan(d, c, query, Only(order, DOMAIN Files(d, c)), bad, 1, NoHits)

\* delete_one that reports success without removing the file.
delete_one_reports_only(d, c, id, bad) == Out(d, NoIndex, Ok(None))

\* Database::delete_one
delete_one(d, c, id, bad) ==
    IF id \notin DOMAIN Files(d, c) THEN Out(d, NoIndex, Ok(None))
    ELSE IF id \in bad THEN Out(d, NoIndex, Err("IoError"))
    ELSE Out(fs_remove_file(d, c, id), NoIndex, Ok(None))

\* delete's loop over the directory listing (lines 226-251); badop says
\* whether the read or the removal of file bad fails.
RECURSIVE DeleteScan(_, _, _, _, _, _, _, _)
DeleteScan(d, c, query, ids, bad, badop, k, deleted_ids) ==
    IF k > Len(ids) THEN Out(d, NoIndex, Ok(deleted_ids))
    ELSE LET r == fs_read(d, c, ids[k], IF badop = "read" THEN bad ELSE {})
         IN  IF r.kind # "Ok" THEN Out(d, NoIndex, Err("IoError"))
             ELSE LET dec == from_reader(r.val)
                  IN  IF dec.kind # "Ok" THEN Out(d, NoIndex, Err("BsonDeError"))
                      ELSE IF Matches(dec.val, query)
                      THEN IF badop = "remove" /\ ids[k] \in bad
                           THEN Out(d, NoIndex, Err("IoError"))
                           ELSE DeleteScan(fs_remove_file(d, c, ids[k]), c, query, ids,
                                           bad, badop, k + 1, deleted_ids \cup {ids[k]})
                      ELSE DeleteScan(d, c, query, ids, bad, badop, k + 1, deleted_ids)

\* delete that puts the removed files back when it aborts.
delete_restores(d, c, query, order, bad, badop) ==
    IF get_collection_path(c) \notin d.dirs THEN Out(d, NoIndex, Err("IoError"))
    ELSE LET out == DeleteScan(d, c, query, Only(order, DOMAIN Files(d, c)),
                               bad, badop, 1, {})
         IN  IF out.res.kind = "Ok" THEN out ELSE Out(d, NoIndex, out.res)

\* Database::delete
delete(d, c, query, order, bad, badop) ==
    IF get_collection_path(c) \notin d.dirs THEN Out(d, NoIndex, Err("IoError"))
    ELSE DeleteScan(d, c, query, Only(order, DOMAIN Files(d, c)), bad, badop, 1, {})

\* ()
Unit == << >>

ClearFaults == {"none", "remove", "create"}

\* Database::clear
clear(d, fault) ==
    IF ~d.root \/ fault = "remove" THEN Out(d, NoIndex, Err("IoError"))
    ELSE IF fault = "create"
    THEN Out([EmptyDisk EXCEPT !.root = FALSE], NoIndex, Err("IoError"))
    ELSE Out(EmptyDisk, NoIndex, Ok(Unit))

---------------------------------------------------------------------------
(* State *)

VARIABLES
    disk,       \* the files under folder_path
    index,      \* Database.index: collection -> field -> [ids]
    nextId,     \* the next ObjectId::new(), as a counter
    last,       \* the last call: its operation, arguments and result
    ref,        \* the files of a second store that gets the same calls, add_index excepted
    calls       \* the calls in flight that run step by step, by caller

vars == << disk, index, nextId, last, ref, calls >>

\* No call is in flight: every call runs as a whole.
NoCalls == << >>

GeneratedIds == 1 .. (nextId - 1)

\* Database::init: the root exists, the index is empty.
Init ==
    /\ disk = EmptyDisk
    /\ index = NoIndex
    /\ nextId = 1
    /\ last = [op |-> "init"]
    /\ ref = EmptyDisk
    /\ calls = NoCalls

AddIndex(c, f) ==
    /\ index' = add_index(index, c, f)
    /\ last' = [op |-> "add_index", coll |-> c, field |-> f]
    /\ UNCHANGED << disk, nextId, ref, calls >>

InsertOne(c, doc, fault) ==
    /\ nextId <= MaxIds
    /\ LET out == insert_one(disk, index, nextId, c, doc, fault)
           out0 == insert_one(ref, NoIndex, nextId, c, doc, fault)
       IN  /\ disk' = out.disk
           /\ index' = out.index
           /\ ref' = out0.disk
           /\ last' = [op |-> "insert_one", coll |-> c, doc |-> doc,
                       res |-> out.res, res0 |-> out0.res]
    /\ nextId' = nextId + 1
    /\ UNCHANGED calls

FindOne(c, id, bad) ==
    /\ last' = [op |-> "find_one", coll |-> c, id |-> id,
                res |-> find_one(disk, c, id, bad), res0 |-> find_one(ref, c, id, bad)]
    /\ UNCHANGED << disk, index, nextId, ref, calls >>

Find(c, query, order, bad) ==
    /\ last' = [op |-> "find", coll |-> c, query |-> query,
                res |-> find(disk, index, c, query, order, bad),
                res0 |-> find(ref, NoIndex, c, query, order, bad)]
    /\ UNCHANGED << disk, index, nextId, ref, calls >>

DeleteOne(c, id, bad) ==
    LET out == delete_one(disk, c, id, bad)
        out0 == delete_one(ref, c, id, bad)
    IN  /\ disk' = out.disk
        /\ ref' = out0.disk
        /\ last' = [op |-> "delete_one", coll |-> c, id |-> id,
                    res |-> out.res, res0 |-> out0.res]
        /\ UNCHANGED << index, nextId, calls >>

Delete(c, query, order, bad, badop) ==
    LET out == delete(disk, c, query, order, bad, badop)
        out0 == delete(ref, c, query, order, bad, badop)
    IN  /\ disk' = out.disk
        /\ ref' = out0.disk
        /\ last' = [op |-> "delete", coll |-> c, query |-> query,
                    res |-> out.res, res0 |-> out0.res]
        /\ UNCHANGED << index, nextId, calls >>

Clear(fault) ==
    LET out == clear(disk, fault)
        out0 == clear(ref, fault)
    IN  /\ disk' = out.disk
        /\ ref' = out0.disk
        /\ last' = [op |-> "clear", res |-> out.res, res0 |-> out0.res]
        /\ UNCHANGED << index, nextId, calls >>

\* The ids a caller can name: those generated so far and one that never was.
KnownIds == GeneratedIds \cup {StrangerId}

\* The files of collection c.
Stored(d, c) == DOMAIN Files(d, c)

\* The files left behind by failed writes.
Partial(d) ==
    { << c, i >> \in Collections \X Ids :
          i \in Stored(d, c) /\ from_reader(Files(d, c)[i]).kind # "Ok" }

\* The ids of collection c named by some index entry.
Indexed(idx, c) ==
    IF c \in DOMAIN idx THEN UNION { Range(idx[c][f]) : f \in DOMAIN idx[c] } ELSE {}

Next ==
    \/ \E c \in Collections, f \in Fields : AddIndex(c, f)
    \/ \E c \in Collections, doc \in InsertDocs :
          \E fault \in InsertFaults(doc) :
             /\ fault.at = "write" => Cardinality(Partial(disk)) < MaxPartial
             /\ InsertOne(c, doc, fault)
    \/ \E c \in Collections, id \in KnownIds : \E bad \in Faults({id}) : FindOne(c, id, bad)
    \/ \E c \in Collections, query \in Queries :
          \E order \in Orders(Stored(disk, c) \cup Indexed(index, c)),
             bad \in Faults(Stored(disk, c)) :
             Find(c, query, order, bad)
    \/ \E c \in Collections, id \in KnownIds : \E bad \in Faults({id}) : DeleteOne(c, id, bad)
    \/ \E c \in Collections, query \in Queries :
          \E order \in Orders(Stored(disk, c)), bad \in Faults(Stored(disk, c)),
             badop \in {"read", "remove"} :
             /\ bad = {} => badop = "read"
             /\ Delete(c, query, order, bad, badop)
    \/ \E fault \in ClearFaults : Clear(fault)

Spec == Init /\ [][Next]_vars

---------------------------------------------------------------------------
(* What the claims speak of *)

\* A document satisfies a query: it holds every field of the query with an
\* equal value.
Satisfies(doc, query) ==
    \A k \in DOMAIN query : k \in DOMAIN doc /\ doc[k] = query[k]

\* The documents stored in collection c, by id; a file that does not decode
\* stores no document.
StoredDocs(d, c) ==
    LET good == { i \in Stored(d, c) : from_reader(Files(d, c)[i]).kind = "Ok" }
    IN  [i \in good |-> from_reader(Files(d, c)[i]).val]

\* C1: every document a successful find(C, q) returns holds every field of q
\* with an equal value.
C1_FindResultsSatisfyQuery ==
    (last.op = "find" /\ last.res.kind = "Ok")
        => \A i \in DOMAIN last.res.val : Satisfies(last.res.val[i], last.query)

\* C2: a find or delete that succeeds in the store with add_index calls and
\* in the store without them returns the same documents / ids in both.
C2_IndexNoIndexEquivalence ==
    (last.op \in {"find", "delete"} /\ last.res.kind = "Ok" /\ last.res0.kind = "Ok")
        => last.res.val = last.res0.val

\* C3: a successful find(C, {}) returns exactly the documents stored in C.
C3_FindAll ==
    (last.op = "find" /\ last.query = EmptyDoc /\ last.res.kind = "Ok")
        => last.res.val = StoredDocs(disk, last.coll)

\* C4: every id under (C, f) of the index is the id of a stored document of
\* C that contains f.
C4_IndexStorageConsistency ==
    \A c \in DOMAIN index : \A f \in DOMAIN index[c] : \A i \in Range(index[c][f]) :
        i \in DOMAIN StoredDocs(disk, c) /\ f \in DOMAIN StoredDocs(disk, c)[i]

\* C5: once delete_one(C, id) has returned Ok, (C, id) has no file and
\* find_one(C, id) returns None; an id a caller can name that has no file
\* never gets one again; and find_one, find and delete return only ids that
\* have a file.  So no later result holds the deleted id.
C5_DeletionRemovesVisibility ==
    /\ [](/\ (last.op = "delete_one" /\ last.res.kind = "Ok")
                => /\ last.id \notin Stored(disk, last.coll)
                   /\ find_one(disk, last.coll, last.id, {}) = Ok(None)
          /\ (last.op = "find_one" /\ last.res.kind = "Ok" /\ last.res.val.some)
                => last.id \in Stored(disk, last.coll)
          /\ (last.op = "find" /\ last.res.kind = "Ok")
                => DOMAIN last.res.val \subseteq Stored(disk, last.coll))
    /\ [][/\ \A c \in Collections : \A i \in KnownIds :
                i \notin Stored(disk, c) => i \notin Stored(disk', c)
          /\ (last'.op = "delete" /\ last'.res.kind = "Ok")
                => last'.res.val \subseteq Stored(disk, last'.coll)]_vars

\* A delete_one(C, id) returned Ok for an id that an index entry of C names.
C5_Witness ==
    /\ last.op = "delete_one"
    /\ last.res.kind = "Ok"
    /\ last.id \in Indexed(index, last.coll)
    /\ Stored(disk, last.coll) # {}

\* C6: after clear() returned Ok, find(C, {}) returns Ok with no document for
\* every collection C that held files, and no index entry holds an id.
C6_ClearIsolation ==
    [][(last'.op = "clear" /\ last'.res.kind = "Ok")
          => /\ \A c \in Collections :
                    Stored(disk, c) # {}
                       => find(disk', index', c, EmptyDoc, << >>, {}) = Ok(NoHits)
             /\ \A c \in DOMAIN index' : \A f \in DOMAIN index'[c] :
                    index'[c][f] = << >>]_vars

\* The call aims at document doc stored as (c, i): it is clear, delete_one
\* of (c, i), or a delete on c whose query doc satisfies.
Aimed(call, c, i, doc) ==
    \/ call.op = "clear"
    \/ (call.op = "delete_one" /\ call.coll = c /\ call.id = i)
    \/ (call.op = "delete" /\ call.coll = c /\ Satisfies(doc, call.query))

\* C7: after insert_one(C, D) returned Ok(id), find_one(C, id) returns D; and
\* a document find_one returns is returned unchanged after every call that
\* is not a clear, a delete_one of its id or a delete it satisfies.
C7_RoundTripImmutable ==
    /\ []((last.op = "insert_one" /\ last.res.kind = "Ok")
              => find_one(disk, last.coll, last.res.val, {}) = Ok(Some(last.doc)))
    /\ [][\A c \in Collections : \A i \in GeneratedIds :
              LET r == find_one(disk, c, i, {})
              IN  (r.kind = "Ok" /\ r.val.some /\ ~Aimed(last', c, i, r.val.doc))
                     => find_one(disk', c, i, {}) = r]_vars

\* Document 1 is still returned after a delete_one of another stored id.
C7_Witness ==
    /\ last.op = "delete_one"
    /\ last.res.kind = "Ok"
    /\ last.id \in GeneratedIds \ {1}
    /\ last.id \in Indexed(index, last.coll)
    /\ find_one(disk, last.coll, 1, {}).val.some

\* C8: a delete(C, q) that returns Ok returns exactly the ids of the stored
\* documents of C that satisfy q; afterwards none of them is found, every
\* other file of C is unchanged, and no stored document of C satisfies q.
C8_DeleteExact ==
    [][(last'.op = "delete" /\ last'.res.kind = "Ok")
          => LET c == last'.coll
                 q == last'.query
                 ids == last'.res.val
                 before == StoredDocs(disk, c)
                 after == StoredDocs(disk', c)
             IN  /\ ids = { i \in DOMAIN before : Satisfies(before[i], q) }
                 /\ \A i \in ids : find_one(disk', c, i, {}) = Ok(None)
                 /\ Stored(disk', c) = Stored(disk, c) \ ids
                 /\ \A i \in Stored(disk', c) : Files(disk', c)[i] = Files(disk, c)[i]
                 /\ \A i \in DOMAIN after : ~Satisfies(after[i], q)]_vars

\* A delete returned Ok with some ids and left a document behind.
C8_Witness ==
    /\ last.op = "delete"
    /\ last.res.kind = "Ok"
    /\ last.res.val # {}
    /\ DOMAIN StoredDocs(disk, last.coll) # {}

\* C9: an insert_one that returns an error returns no identifier and leaves
\* the index as it was.
C9_FailedInsertLeavesIndex ==
    [][(last'.op = "insert_one" /\ last'.res.kind # "Ok")
          => (index' = index /\ "val" \notin DOMAIN last'.res)]_vars

\* An insert_one failed in the write, leaving a partial file, on a collection
\* whose index tracks a field of the document.
C9_Witness ==
    /\ last.op = "insert_one"
    /\ last.res.kind = "IoError"
    /\ last.coll \in DOMAIN index
    /\ DOMAIN last.doc \cap DOMAIN index[last.coll] # {}
    /\ (nextId - 1) \in Stored(disk, last.coll)

\* C10: find_one and delete_one of an id that has no file return Ok (find_one
\* returns None) and leave the files and the index as they were.
C10_NotFoundIsNormal ==
    [][/\ (last'.op = "find_one" /\ last'.id \notin Stored(disk, last'.coll))
             => (last'.res = Ok(None) /\ disk' = disk /\ index' = index)
       /\ (last'.op = "delete_one" /\ last'.id \notin Stored(disk, last'.coll))
             => (last'.res = Ok(None) /\ disk' = disk /\ index' = index)]_vars

\* A delete_one of an id that was never generated returned, with files stored.
C10_Witness ==
    /\ last.op = "delete_one"
    /\ last.id = StrangerId
    /\ last.res.kind = "Ok"
    /\ Stored(disk, last.coll) # {}

\* C11: a successful insert_one returns an id that no earlier insert_one
\* generated and that names no file, and records it as generated; the
\* generated ids only grow, whatever is deleted or cleared.  So no two
\* successful insert_one calls return the same id.
C11_IdentifierUniqueness ==
    [][/\ (last'.op = "insert_one" /\ last'.res.kind = "Ok")
             => /\ last'.res.val \notin GeneratedIds
                /\ last'.res.val \in GeneratedIds'
                /\ \A c \in Collections : last'.res.val \notin Stored(disk, c)
       /\ GeneratedIds \subseteq GeneratedIds']_vars

\* An insert_one returned an id after an earlier inserted document, still
\* named by the index, lost its file.
C11_Witness ==
    /\ last.op = "insert_one"
    /\ last.res.kind = "Ok"
    /\ \E i \in Indexed(index, last.coll) :
           i < last.res.val /\ i \notin Stored(disk, last.coll)

\* C12: add_index(C, f) with f already tracked for C leaves the whole index
\* as it was.
C12_AddIndexIdempotent ==
    [][(/\ last'.op = "add_index"
        /\ last'.coll \in DOMAIN index
        /\ last'.field \in DOMAIN index[last'.coll])
          => index' = index]_vars

\* An add_index returned for a field that holds ids, next to another field
\* that holds ids.
C12_Witness ==
    /\ last.op = "add_index"
    /\ index[last.coll][last.field] # << >>
    /\ \E f \in DOMAIN index[last.coll] \ {last.field} : index[last.coll][f] # << >>

\* C15: an insert_one leaves the set of fields tracked for every collection
\* as it was, and adds the returned id under exactly the tracked fields of
\* its collection that the document contains; a failed one adds nothing.
C15_InsertIndexesDeclaredFields ==
    [][last'.op = "insert_one"
          => /\ DOMAIN index' = DOMAIN index
             /\ \A c \in DOMAIN index :
                   /\ DOMAIN index'[c] = DOMAIN index[c]
                   /\ \A f \in DOMAIN index[c] :
                         index'[c][f] =
                            IF /\ last'.res.kind = "Ok"
                               /\ c = last'.coll
                               /\ f \in DOMAIN last'.doc
                            THEN Append(index[c][f], last'.res.val)
                            ELSE index[c][f]]_vars

\* C16: a successful find(C, q) returns every stored document of C that was
\* inserted before the first add_index on C (no index entry names its id)
\* and satisfies q.
C16_AddIndexKeepsFindResults ==
    (last.op = "find" /\ last.res.kind = "Ok")
        => LET docs == StoredDocs(disk, last.coll)
           IN  \A i \in DOMAIN docs :
                  (i \notin Indexed(index, last.coll) /\ Satisfies(docs[i], last.query))
                     => (i \in DOMAIN last.res.val /\ last.res.val[i] = docs[i])

\* The fields of query q that have an index entry for collection c.
Tracked(idx, c, q) == IF c \in DOMAIN idx THEN DOMAIN q \cap DOMAIN idx[c] ELSE {}

\* The ids that every tracked field of q lists.
InAllTracked(idx, c, q) ==
    { i \in Ids : \A f \in Tracked(idx, c, q) : i \in Range(idx[c][f]) }

\* C17: a successful find(C, q) with a field of q tracked for C returns
\* exactly the stored documents whose ids are in the id set of every tracked
\* field of q; the untracked fields of q play no part.
C17_CandidateIntersection ==
    (last.op = "find" /\ last.res.kind = "Ok"
       /\ Tracked(index, last.coll, last.query) # {})
        => LET c == last.coll
               docs == StoredDocs(disk, c)
           IN  /\ DOMAIN last.res.val = InAllTracked(index, c, last.query) \cap Stored(disk, c)
               /\ \A i \in DOMAIN last.res.val : i \in DOMAIN docs /\ last.res.val[i] = docs[i]

\* A find constraining two tracked fields with different id sets returned a
\* document and left a stored document of the larger set out.
C17_Witness ==
    /\ last.op = "find"
    /\ last.res.kind = "Ok"
    /\ Tracked(index, last.coll, last.query) = {"name", "age"}
    /\ last.res.val # NoHits
    /\ \E i \in Indexed(index, last.coll) \cap Stored(disk, last.coll) :
           i \notin DOMAIN last.res.val

\* The files a find(c, q) visits: the stored candidates of the index, or the
\* whole directory when the collection has no index entry.
FindFiles(d, idx, c, q) ==
    IF c \in DOMAIN idx
    THEN IF Tracked(idx, c, q) = {} THEN {} ELSE InAllTracked(idx, c, q) \cap Stored(d, c)
    ELSE Stored(d, c)

\* File (c, i) cannot be read in this call or does not decode.
BadFile(d, c, i, bad) == i \in bad \/ from_reader(Files(d, c)[i]).kind # "Ok"

\* C18: a find that visits a file it cannot read or decode, and a delete
\* whose directory holds one, return an error: whatever the order of the
\* visit, on the index path and on the enumeration path.
C18_NoHiddenBadFile ==
    \A c \in Collections, q \in Queries : \A bad \in Faults(Stored(disk, c)) :
        /\ (\E i \in FindFiles(disk, index, c, q) : BadFile(disk, c, i, bad))
              => \A order \in Orders(Stored(disk, c) \cup Indexed(index, c)) :
                    find(disk, index, c, q, order, bad).kind # "Ok"
        /\ (/\ get_collection_path(c) \in disk.dirs
            /\ \E i \in Stored(disk, c) : BadFile(disk, c, i, bad))
              => \A order \in Orders(Stored(disk, c)) :
                    delete(disk, c, q, order, bad, "read").res.kind # "Ok"

\* A find on the index path returned an I/O error with two files stored.
C18_Witness ==
    /\ last.op = "find"
    /\ last.coll \in DOMAIN index
    /\ last.res.kind = "IoError"
    /\ Cardinality(Stored(disk, last.coll)) > 1

\* The first entry of the listing at which delete(c, q) stops: one it cannot
\* read or decode, or a matching one it cannot remove; 0 if there is none.
\* docs are the documents of the collection's files that decode.
StopsAt(docs, q, order, bad, badop) ==
    LET fails == { k \in DOMAIN order :
                     \/ order[k] \notin DOMAIN docs
                     \/ (badop = "read" /\ order[k] \in bad)
                     \/ (badop = "remove" /\ order[k] \in bad
                           /\ Satisfies(docs[order[k]], q)) }
    IN  IF fails = {} THEN 0 ELSE CHOOSE k \in fails : \A j \in fails : k <= j

\* C20: a delete(C, q) that stops at an entry returns an error without ids;
\* the matching documents listed before that entry are removed, and every
\* other file, the entry itself and those listed after it included, is as
\* it was.
C20_DeleteNoRollback ==
    \A c \in Collections :
       LET docs == StoredDocs(disk, c)
       IN  \A q \in Queries, order \in Orders(Stored(disk, c)),
              bad \in Faults(Stored(disk, c)), badop \in {"read", "remove"} :
              LET k == StopsAt(docs, q, order, bad, badop)
                  removed == { order[j] : j \in { j \in 1 .. (k - 1) :
                                                      Satisfies(docs[order[j]], q) } }
                  out == delete(disk, c, q, order, bad, badop)
              IN  (get_collection_path(c) \in disk.dirs /\ k > 0)
                     => /\ out.res.kind # "Ok"
                        /\ "val" \notin DOMAIN out.res
                        /\ Stored(out.disk, c) = Stored(disk, c) \ removed
                        /\ \A i \in Stored(out.disk, c) :
                              Files(out.disk, c)[i] = Files(disk, c)[i]

\* A delete has aborted, and in the state it left a delete stops at the
\* second entry of the listing after removing the first.
C20_Witness ==
    /\ last.op = "delete"
    /\ last.res.kind # "Ok"
    /\ \E order \in Orders(Stored(disk, last.coll)), bad \in Faults(Stored(disk, last.coll)) :
          /\ StopsAt(StoredDocs(disk, last.coll), EmptyDoc, order, bad, "read") = 2
          /\ Stored(delete(disk, last.coll, EmptyDoc, order, bad, "read").disk, last.coll)
                = Stored(disk, last.coll) \ {order[1]}

---------------------------------------------------------------------------
(* Collections against each other: the calls of Spec without faults and   *)
(* without clear, on the names of CollectionNames.                        *)

IsolationDocs == { test_documents[1] }

IsolationQueries == { EmptyDoc, [name |-> "John"] }

IsolationNext ==
    \/ \E c \in CollectionNames : AddIndex(c, "name")
    \/ \E c \in CollectionNames, doc \in IsolationDocs : InsertOne(c, doc, NoFault)
    \/ \E c \in CollectionNames, id \in KnownIds : FindOne(c, id, {})
    \/ \E c \in CollectionNames, query \in IsolationQueries :
          \E order \in Orders(Stored(disk, c) \cup Indexed(index, c)) :
             Find(c, query, order, {})
    \/ \E c \in CollectionNames, id \in KnownIds : DeleteOne(c, id, {})
    \/ \E c \in CollectionNames, query \in IsolationQueries :
          \E order \in Orders(Stored(disk, c)) : Delete(c, query, order, {}, "read")

SpecIsolation == Init /\ [][IsolationNext]_vars

\* The index entries of collection b.
IndexOf(idx, b) == IF b \in DOMAIN idx THEN idx[b] ELSE NoIndex

\* C19: a call on collection A leaves the stored documents and the index
\* entries of every other collection B as they were.  With that, a document
\* of B was inserted into B, so no find or find_one on B returns one that
\* was inserted into A.
C19_CollectionIsolation ==
    [][\A b \in CollectionNames :
          (/\ last'.op \in {"insert_one", "delete_one", "delete", "find", "find_one",
                             "add_index"}
           /\ last'.coll # b)
             => /\ StoredDocs(disk', b) = StoredDocs(disk, b)
                /\ IndexOf(index', b) = IndexOf(index, b)]_vars

---------------------------------------------------------------------------
(* Calls in flight.  The methods are async: a call runs up to a           *)
(* filesystem operation it awaits, and calls that are in flight together  *)
(* take such steps in any order.  clear, find_one, find, delete_one and   *)
(* delete take &self, so one Database runs them together; insert_one      *)
(* takes &mut self and runs beside other calls only on the same           *)
(* folder_path.                                                           *)

\* Number of calls in flight together.
MaxCalls == 2

\* tokio::fs::remove_dir_all(folder_path)
fs_remove_dir_all(d) == [EmptyDisk EXCEPT !.root = FALSE]

\* create_path_dirs(folder_path)
create_root_dir(d) == [d EXCEPT !.root = TRUE]

StepQueries == { EmptyDoc, [name |-> "John"] }

\* The calls that are put in flight.
StepCalls ==
    { [op |-> "clear"] }
    \cup { [op |-> "find_one", coll |-> "users", id |-> i] : i \in 1 .. 2 }
    \cup { [op |-> "delete_one", coll |-> "users", id |-> i] : i \in 1 .. 2 }
    \cup { [op |-> "insert_one", coll |-> "users", doc |-> doc] :
               doc \in { test_documents[1], [nul |-> 25] } }
    \cup { [op |-> "find", coll |-> "users", query |-> q] : q \in StepQueries }
    \cup { [op |-> "delete", coll |-> "users", query |-> q] : q \in StepQueries }

\* The store after add_index("users", "name"), if indexed, and insert_one of
\* the first n test documents.
RECURSIVE Preloaded(_, _)
Preloaded(n, indexed) ==
    IF n = 0
    THEN Out(EmptyDisk, IF indexed THEN add_index(NoIndex, "users", "name") ELSE NoIndex,
             Ok(Unit))
    ELSE LET s == Preloaded(n - 1, indexed)
             doc == test_documents[((n - 1) % Len(test_documents)) + 1]
         IN  insert_one(s.disk, s.index, n, "users", doc, NoFault)

\* The calls start together on a preloaded store; ref and last keep the
\* store as it was at the start.
StepsInit ==
    \E n \in 0 .. (MaxIds - 1), indexed \in BOOLEAN :
       /\ disk = Preloaded(n, indexed).disk
       /\ index = Preloaded(n, indexed).index
       /\ nextId = n + 1
       /\ ref = disk
       /\ last = [op |-> "start", index |-> index, nextId |-> nextId]
       /\ calls \in [1 .. MaxCalls -> { [call |-> k, pc |-> "start"] : k \in StepCalls }]

\* The call has returned r.
Done(k, r) == [call |-> k.call, pc |-> "done", res |-> r]

\* clear: remove_dir_all (42-47), then create_dir_all (49).
ClearStep(p) ==
    LET k == calls[p]
    IN  /\ k.call.op = "clear"
        /\ \/ /\ k.pc = "start"
              /\ IF disk.root
                 THEN /\ disk' = fs_remove_dir_all(disk)
                      /\ calls' = [calls EXCEPT ![p] = [k EXCEPT !.pc = "removed"]]
                 ELSE /\ disk' = disk
                      /\ calls' = [calls EXCEPT ![p] = Done(k, Err("IoError"))]
           \/ /\ k.pc = "removed"
              /\ disk' = create_root_dir(disk)
              /\ calls' = [calls EXCEPT ![p] = Done(k, Ok(Unit))]
        /\ UNCHANGED << index, nextId, last, ref >>

\* find_one: the read (111).
FindOneStep(p) ==
    LET k == calls[p]
    IN  /\ k.call.op = "find_one"
        /\ k.pc = "start"
        /\ calls' = [calls EXCEPT ![p] =
                        Done(k, find_one(disk, k.call.coll, k.call.id, {}))]
        /\ UNCHANGED << disk, index, nextId, last, ref >>

\* delete_one: the remove_file (194).
DeleteOneStep(p) ==
    LET k == calls[p]
        out == delete_one(disk, k.call.coll, k.call.id, {})
    IN  /\ k.call.op = "delete_one"
        /\ k.pc = "start"
        /\ disk' = out.disk
        /\ calls' = [calls EXCEPT ![p] = Done(k, out.res)]
        /\ UNCHANGED << index, nextId, last, ref >>

\* insert_one: the new id, the bytes and create_dir_all (71-79); the write
\* (81), which creates the file and then fills it; the index update and the
\* return (86-101).
InsertOneStep(p) ==
    LET k == calls[p]
        c == k.call.coll
        ser == to_writer(k.call.doc)
    IN  /\ k.call.op = "insert_one"
        /\ \/ /\ k.pc = "start"
              /\ nextId <= MaxIds
              /\ nextId' = nextId + 1
              /\ IF ser.kind # "Ok"
                 THEN /\ disk' = disk
                      /\ calls' = [calls EXCEPT ![p] = Done(k, Err("BsonSerError"))]
                 ELSE /\ disk' = create_path_dirs(disk, c)
                      /\ calls' = [calls EXCEPT ![p] =
                                      [call |-> k.call, pc |-> "create", id |-> nextId]]
              /\ UNCHANGED index
           \/ /\ k.pc = "create"
              /\ IF get_collection_path(c) \in disk.dirs
                 THEN /\ disk' = fs_write(disk, c, k.id, << >>)
                      /\ calls' = [calls EXCEPT ![p] = [k EXCEPT !.pc = "write"]]
                 ELSE /\ disk' = disk
                      /\ calls' = [calls EXCEPT ![p] = Done(k, Err("IoError"))]
              /\ UNCHANGED << index, nextId >>
           \/ /\ k.pc = "write"
              /\ disk' = IF k.id \in DOMAIN Files(disk, c)
                         THEN fs_write(disk, c, k.id, ser.val)
                         ELSE disk
              /\ calls' = [calls EXCEPT ![p] = [k EXCEPT !.pc = "index"]]
              /\ UNCHANGED << index, nextId >>
           \/ /\ k.pc = "index"
              /\ index' = IndexInsert(index, c, k.id, k.call.doc)
              /\ calls' = [calls EXCEPT ![p] = Done(k, Ok(k.id))]
              /\ UNCHANGED << disk, nextId >>
        /\ UNCHANGED << last, ref >>

\* The call goes on to the next id of its list, or returns r after the last.
Advance(k, r) ==
    IF Tail(k.todo) = << >> THEN Done(k, r) ELSE [k EXCEPT !.todo = Tail(@), !.acc = r.val]

\* find: the candidate ids of the index (133-147) or read_dir (161-164), then
\* one find_one per candidate (151) or one read per entry (171-181).
FindStep(p) ==
    LET k == calls[p]
        c == k.call.coll
        q == k.call.query
    IN  /\ k.call.op = "find"
        /\ \/ /\ k.pc = "start"
              /\ c \in DOMAIN index
              /\ LET cand == candidate_ids(index[c], q)
                 IN  IF cand.some /\ cand.ids # {}
                     THEN \E order \in Orders(cand.ids) :
                             calls' = [calls EXCEPT ![p] =
                                          [call |-> k.call, pc |-> "candidates",
                                           todo |-> order, acc |-> NoHits]]
                     ELSE calls' = [calls EXCEPT ![p] = Done(k, Ok(NoHits))]
           \/ /\ k.pc = "start"
              /\ c \notin DOMAIN index
              /\ IF get_collection_path(c) \notin disk.dirs
                 THEN calls' = [calls EXCEPT ![p] = Done(k, Err("IoError"))]
                 ELSE IF DOMAIN Files(disk, c) = {}
                 THEN calls' = [calls EXCEPT ![p] = Done(k, Ok(NoHits))]
                 ELSE \E order \in Orders(DOMAIN Files(disk, c)) :
                         calls' = [calls EXCEPT ![p] =
                                      [call |-> k.call, pc |-> "entries",
                                       todo |-> order, acc |-> NoHits]]
           \/ /\ k.pc = "candidates"
              /\ LET id == Head(k.todo)
                     r == find_one(disk, c, id, {})
                 IN  calls' = [calls EXCEPT ![p] =
                        IF r.kind # "Ok" THEN Done(k, r)
                        ELSE Advance(k, Ok(IF r.val.some
                                           THEN (id :> r.val.doc) @@ k.acc
                                           ELSE k.acc))]
           \/ /\ k.pc = "entries"
              /\ LET id == Head(k.todo)
                     r == fs_read(disk, c, id, {})
                     dec == from_reader(r.val)
                 IN  calls' = [calls EXCEPT ![p] =
                        IF r.kind # "Ok" THEN Done(k, Err("IoError"))
                        ELSE IF dec.kind # "Ok" THEN Done(k, Err("BsonDeError"))
                        ELSE Advance(k, Ok(IF Matches(dec.val, q)
                                           THEN (id :> dec.val) @@ k.acc
                                           ELSE k.acc))]
        /\ UNCHANGED << disk, index, nextId, last, ref >>

\* delete: read_dir (221-224), then per entry the read (231-237) and, if the
\* document matches, the remove_file (240-245).
DeleteStep(p) ==
    LET k == calls[p]
        c == k.call.coll
        q == k.call.query
    IN  /\ k.call.op = "delete"
        /\ \/ /\ k.pc = "start"
              /\ IF get_collection_path(c) \notin disk.dirs
                 THEN calls' = [calls EXCEPT ![p] = Done(k, Err("IoError"))]
                 ELSE IF DOMAIN Files(disk, c) = {}
                 THEN calls' = [calls EXCEPT ![p] = Done(k, Ok({}))]
                 ELSE \E order \in Orders(DOMAIN Files(disk, c)) :
                         calls' = [calls EXCEPT ![p] =
                                      [call |-> k.call, pc |-> "entries",
                                       todo |-> order, acc |-> {}]]
              /\ disk' = disk
           \/ /\ k.pc = "entries"
              /\ LET r == fs_read(disk, c, Head(k.todo), {})
                     dec == from_reader(r.val)
                 IN  calls' = [calls EXCEPT ![p] =
                        IF r.kind # "Ok" THEN Done(k, Err("IoError"))
                        ELSE IF dec.kind # "Ok" THEN Done(k, Err("BsonDeError"))
                        ELSE IF Matches(dec.val, q) THEN [k EXCEPT !.pc = "remove"]
                        ELSE Advance(k, Ok(k.acc))]
              /\ disk' = disk
           \/ /\ k.pc = "remove"
              /\ LET id == Head(k.todo)
                 IN  IF id \in DOMAIN Files(disk, c)
                     THEN /\ disk' = fs_remove_file(disk, c, id)
                          /\ calls' = [calls EXCEPT ![p] =
                                Advance([k EXCEPT !.pc = "entries"], Ok(k.acc \cup {id}))]
                     ELSE /\ disk' = disk
                          /\ calls' = [calls EXCEPT ![p] = Done(k, Err("IoError"))]
        /\ UNCHANGED << index, nextId, last, ref >>

StepsNext ==
    \/ \E p \in DOMAIN calls : ClearStep(p)
    \/ \E p \in DOMAIN calls : FindOneStep(p)
    \/ \E p \in DOMAIN calls : DeleteOneStep(p)
    \/ \E p \in DOMAIN calls : InsertOneStep(p)
    \/ \E p \in DOMAIN calls : FindStep(p)
    \/ \E p \in DOMAIN calls : DeleteStep(p)

SpecSteps == StepsInit /\ [][StepsNext]_vars

\* The calls ks one after the other in the order perm, each as a whole, on
\* the store (d, idx) with next id nid: the files left and the results.
RECURSIVE SerialRun(_, _, _, _, _, _, _)
SerialRun(ks, perm, n, d, idx, nid, res) ==
    IF n > Len(perm) THEN [disk |-> d, res |-> res]
    ELSE LET p == perm[n]
             k == ks[p].call
         IN  CASE k.op = "find_one" ->
                    SerialRun(ks, perm, n + 1, d, idx, nid,
                              (p :> find_one(d, k.coll, k.id, {})) @@ res)
               [] k.op = "delete_one" ->
                    LET out == delete_one(d, k.coll, k.id, {})
                    IN  SerialRun(ks, perm, n + 1, out.disk, idx, nid, (p :> out.res) @@ res)
               [] k.op = "insert_one" ->
                    LET out == insert_one(d, idx, nid, k.coll, k.doc, NoFault)
                    IN  SerialRun(ks, perm, n + 1, out.disk, out.index, nid + 1,
                                  (p :> out.res) @@ res)
               [] OTHER -> SerialRun(ks, perm, n + 1, d, idx, nid, res)

\* The document the call has aimed at: the file it read, removed or wrote.
Target(k) ==
    << get_collection_path(k.call.coll),
       IF k.call.op = "insert_one" THEN k.res.val ELSE k.call.id >>

\* The calls are find_one, insert_one and delete_one calls, they have
\* returned, and they aimed at different documents.
Independent ==
    /\ \A p \in DOMAIN calls :
          /\ calls[p].call.op \in {"find_one", "insert_one", "delete_one"}
          /\ calls[p].pc = "done"
          /\ calls[p].call.op = "insert_one" => calls[p].res.kind = "Ok"
    /\ \A p, r \in DOMAIN calls : p # r => Target(calls[p]) # Target(calls[r])

\* C13: a find_one, find, delete_one or delete takes a step only while the
\* root directory exists and no clear is between its removal of the root
\* and its recreation.
C13_ClearExclusive ==
    [][\A q \in DOMAIN calls :
          (/\ calls[q].call.op \in {"find_one", "find", "delete_one", "delete"}
           /\ calls'[q] # calls[q])
             => /\ disk.root
                /\ \A p \in DOMAIN calls :
                      ~(calls[p].call.op = "clear" /\ calls[p].pc = "removed")]_vars

\* C14: when find_one, insert_one and delete_one calls that aimed at
\* different documents have run step by step and returned, some order of
\* the calls, run one call after the other from the same start, gives every
\* call the same result and leaves the same files.
C14_FileOpsSerializable ==
    Independent
        => \E perm \in Orders(DOMAIN calls) :
              LET s == SerialRun(calls, perm, 1, ref, last.index, last.nextId, << >>)
              IN  /\ s.disk = disk
                  /\ \A p \in DOMAIN calls : s.res[p] = calls[p].res

\* An insert_one and a delete_one of a stored document ran together and
\* returned.
C14_Witness ==
    /\ calls # NoCalls
    /\ Independent
    /\ \E p, r \in DOMAIN calls :
          /\ calls[p].call.op = "insert_one"
          /\ calls[r].call.op = "delete_one"
          /\ calls[r].call.id \in DOMAIN Files(ref, calls[r].call.coll)
          /\ calls[r].call.id \notin DOMAIN Files(disk, calls[r].call.coll)

====
